---- MODULE Spec2Model ----
(***************************************************************************)
(* Model of SRGAN/dataset.py: the minibatch iterator (class DataIterator)  *)
(* and the Celeb-A cache builder / chunk loader (class CelebADataSet).     *)
(*                                                                         *)
(* Arrays are sequences of rows.  Sequences are 1-based, so the Python     *)
(* slice a[s:e] is the rows s+1 .. e of the sequence.  A feature row is    *)
(* identified by its position in the array handed to the constructor, and  *)
(* the label that belongs to feature row k is LabelOf(k).                  *)
(***************************************************************************)
EXTENDS Integers, Sequences, FiniteSets, TLC

\* ---------------------------------------------------------------- bounds
MaxExamples == 4      \* largest feature array handed to DataIterator
MaxRows == 5          \* largest small container found on disk
MaxSize == 3          \* largest chunk size passed to load_data
MaxOffset == 6        \* largest chunk index passed to load_data
MaxDelta == 1         \* file and row counts this close to num_images are tried

\* ------------------------------------------------------------- variables
VARIABLES
    arg,            \* arguments of DataIterator(x, y, batch_size, label_off)
    status,         \* "new", "ready" or "AssertionError"
    x,              \* self.x
    y,              \* self.y (unset, shown as <<>>, when label_off)
    label_off,      \* self.label_off
    batch_size,     \* self.batch_size
    num_examples,   \* self.num_examples
    num_batches,    \* self.num_batches
    pointer,        \* self.pointer
    ret,            \* what the last next_batch() returned, with its locals
    gen,            \* generator made by iterate(): "none","running","exhausted"
    step,           \* batches the running generator has yielded so far
    direct,         \* a next_batch() call was made outside iterate()
    pass,           \* the current iterate() call: "none", "first" or "later"
    passSizes,      \* row counts of the batches the current iterate() yielded
    passShuffled,   \* for each of them, whether that call reshuffled
    passRows,       \* the rows those batches contained
    passOverlap,    \* one of them contained a row an earlier one contained
    served,         \* rows returned since (and by) the last reshuffle
    mode,           \* CelebADataSet(mode=...): "w" or "r"
    files,          \* number of *.jpg files glob finds in the image directory
    h5,             \* the container file: [exists, rows]
    dsStatus,       \* "new", "ready" or the exception __init__ raised
    images,         \* self.images, as the rows [lo, hi) of the container
    loadArgs,       \* arguments of the last load_data(size, offset) call
    loadRet         \* its result, as the rows [lo, hi) of the container

iterVars == <<arg, status, x, y, label_off, batch_size, num_examples,
              num_batches, pointer, ret, gen, step, direct, pass, passSizes,
              passShuffled, passRows, passOverlap, served>>

dsVars == <<mode, files, h5, dsStatus, images, loadArgs, loadRet>>

vars == <<iterVars, dsVars>>

\* --------------------------------------------------------------- helpers
Min(a, b) == IF a < b THEN a ELSE b

\* fault: the slice keeps the row at its end index
Slice_Inclusive(a, s, e) == SubSeq(a, Min(s, Len(a)) + 1, Min(e + 1, Len(a)))

\* Python a[s:e] for 0 <= s, 0 <= e: both ends are clipped to len(a).
Slice(a, s, e) == SubSeq(a, Min(s, Len(a)) + 1, Min(e, Len(a)))

\* numpy a[perm]: row i of the result is row perm[i] of a.
Take(a, perm) == [i \in 1..Len(perm) |-> a[perm[i]]]

\* The orderings of a set of indices, as sequences.
RECURSIVE Orderings(_)
Orderings(S) ==
    IF S = {} THEN {<<>>}
    ELSE UNION {{Append(p, e) : p \in Orderings(S \ {e})} : e \in S}

\* Outcomes of np.random.shuffle(np.arange(n)): every permutation of n rows.
Perms(n) == Orderings(1..n)

\* The permutations of each array length, computed once.
PermsOf == [n \in 1..MaxExamples |-> Perms(n)]

Range(s) == {s[i] : i \in 1..Len(s)}

\* The label paired with feature row k in the arrays given to the constructor.
LabelOf(k) == k + 100

NoRows == [lo |-> 0, hi |-> 0, error |-> "none"]

NoArgs == [size |-> 0, offset |-> 0, called |-> FALSE]

NoReturn == [start |-> 0, end |-> 0, bx |-> <<>>, by |-> <<>>,
             shuffled |-> FALSE, called |-> FALSE]

\* ------------------------------------------------- DataIterator.__init__

\* fault: the batch count is rounded up
NumBatches_Ceil(n, bs) == (n + bs - 1) \div bs

\* self.num_batches = num_examples // batch_size
NumBatches(n, bs) == n \div bs

\* self.pointer = 0
InitialPointer == 0

\* fault: the constructor does not check the batch size
CtorAssert_None(bs, n) == TRUE

\* assert self.batch_size <= self.num_examples
CtorAssert(bs, n) == bs <= n

IterNew(n, bs, off) ==
    /\ arg = [x |-> [k \in 1..n |-> k],
              y |-> [k \in 1..n |-> LabelOf(k)],
              batch_size |-> bs,
              label_off |-> off]
    /\ status = "new"
    /\ x = <<>> /\ y = <<>> /\ label_off = FALSE
    /\ batch_size = 0 /\ num_examples = 0 /\ num_batches = 0 /\ pointer = 0
    /\ ret = NoReturn
    /\ gen = "none" /\ step = 0
    /\ direct = FALSE /\ pass = "none"
    /\ passSizes = <<>> /\ passShuffled = <<>>
    /\ passRows = {} /\ passOverlap = FALSE /\ served = {}

DsNew(m, f, c) ==
    /\ mode = m
    /\ files = f
    /\ h5 = c
    /\ dsStatus = "new"
    /\ images = NoRows
    /\ loadArgs = NoArgs
    /\ loadRet = NoRows

\* A DataIterator about to be constructed over n paired rows.
IterInit ==
    /\ \E n \in 1..MaxExamples, bs \in 1..(MaxExamples + 1), off \in BOOLEAN :
          IterNew(n, bs, off)
    /\ DsNew("r", 0, [exists |-> FALSE, rows |-> 0])

Construct ==
    /\ status = "new"
    /\ IF CtorAssert(arg.batch_size, Len(arg.x))
         THEN /\ status' = "ready"
              /\ x' = arg.x
              /\ label_off' = arg.label_off
              /\ y' = IF arg.label_off THEN <<>> ELSE arg.y
              /\ batch_size' = arg.batch_size
              /\ num_examples' = Len(arg.x)
              /\ num_batches' = NumBatches(Len(arg.x), arg.batch_size)
              /\ pointer' = InitialPointer
         ELSE /\ status' = "AssertionError"
              /\ UNCHANGED <<x, y, label_off, batch_size, num_examples,
                             num_batches, pointer>>
    /\ UNCHANGED <<arg, ret, gen, step, direct, pass, passSizes,
                   passShuffled, passRows, passOverlap, served>>
    /\ UNCHANGED dsVars

\* ------------------------------------------------ DataIterator.next_batch

\* fault: the test looks at the start of the batch, not at its end
Overflow_StartOnly(p, bs, n) == p >= n

\* fault: the test also fires when the batch ends exactly at the last row
Overflow_AtEnd(p, bs, n) == p + bs >= n

\* pointer += batch_size; if pointer > num_examples: ...
Overflow(p, bs, n) == p + bs > n

\* fault: the cursor restarts at 0 and is not advanced past the batch
CursorAfter_Zero(p, bs, n) == IF Overflow(p, bs, n) THEN 0 ELSE p + bs

\* self.pointer when the call returns
CursorAfter(p, bs, n) == IF Overflow(p, bs, n) THEN bs ELSE p + bs

\* fault: start is not reset after a reshuffle
StartAfter_NoReset(p, bs, n) == p

\* the local `start` when the call returns
StartAfter(p, bs, n) == IF Overflow(p, bs, n) THEN 0 ELSE p

\* self.x = self.x[perm]
ShuffleX(a, perm) == Take(a, perm)

\* fault: the labels are not rearranged with the features
ShuffleY_Unpermuted(a, perm) == a

\* self.y = self.y[perm]
ShuffleY(a, perm) == Take(a, perm)

\* The body of next_batch(); perm is the permutation np.random.shuffle draws
\* when the branch is taken.
next_batch(perm) ==
    LET over  == Overflow(pointer, batch_size, num_examples)
        start == StartAfter(pointer, batch_size, num_examples)
        end   == CursorAfter(pointer, batch_size, num_examples)
        nx    == IF over THEN ShuffleX(x, perm) ELSE x
        ny    == IF over /\ ~label_off THEN ShuffleY(y, perm) ELSE y
        bx    == Slice(nx, start, end)
    IN  /\ x' = nx
        /\ y' = ny
        /\ pointer' = end
        /\ ret' = [start |-> start, end |-> end, bx |-> bx,
                   by |-> IF label_off THEN <<>> ELSE Slice(ny, start, end),
                   shuffled |-> over, called |-> TRUE]
        /\ served' = IF over THEN Range(bx) ELSE served \cup Range(bx)

\* A call of next_batch() made by the user, between two passes of iterate().
NextBatchNoShuffle ==
    /\ status = "ready"
    /\ gen # "running"
    /\ ~Overflow(pointer, batch_size, num_examples)
    /\ next_batch(<<>>)
    /\ direct' = TRUE
    /\ UNCHANGED <<arg, status, label_off, batch_size, num_examples,
                   num_batches, gen, step, pass, passSizes, passShuffled,
                   passRows, passOverlap>>
    /\ UNCHANGED dsVars

NextBatchShuffle ==
    /\ status = "ready"
    /\ gen # "running"
    /\ Overflow(pointer, batch_size, num_examples)
    /\ \E perm \in PermsOf[num_examples] : next_batch(perm)
    /\ direct' = TRUE
    /\ UNCHANGED <<arg, status, label_off, batch_size, num_examples,
                   num_batches, gen, step, pass, passSizes, passShuffled,
                   passRows, passOverlap>>
    /\ UNCHANGED dsVars

\* --------------------------------------------------- DataIterator.iterate
\* Calling iterate() makes a generator.  Every generator is consumed to
\* exhaustion before iterate() is called again.
IterateCall ==
    /\ status = "ready"
    /\ gen # "running"
    /\ gen' = "running"
    /\ step' = 0
    /\ pass' = IF pass = "none" THEN "first" ELSE "later"
    /\ passSizes' = <<>>
    /\ passShuffled' = <<>>
    /\ passRows' = {}
    /\ passOverlap' = FALSE
    /\ UNCHANGED <<arg, status, x, y, label_off, batch_size, num_examples,
                   num_batches, pointer, ret, direct, served>>
    /\ UNCHANGED dsVars

\* for step in range(self.num_batches): yield self.next_batch()
IterateYield ==
    /\ status = "ready"
    /\ gen = "running"
    /\ step < num_batches
    /\ IF Overflow(pointer, batch_size, num_examples)
         THEN \E perm \in PermsOf[num_examples] : next_batch(perm)
         ELSE next_batch(<<>>)
    /\ step' = step + 1
    /\ passSizes' = Append(passSizes, Len(ret'.bx))
    /\ passShuffled' = Append(passShuffled, ret'.shuffled)
    /\ passRows' = passRows \cup Range(ret'.bx)
    /\ passOverlap' = (passOverlap \/ passRows \cap Range(ret'.bx) # {})
    /\ UNCHANGED <<arg, status, label_off, batch_size, num_examples,
                   num_batches, gen, direct, pass>>
    /\ UNCHANGED dsVars

\* range() is used up: the generator raises StopIteration.
IterateStop ==
    /\ status = "ready"
    /\ gen = "running"
    /\ step >= num_batches
    /\ gen' = "exhausted"
    /\ UNCHANGED <<arg, status, x, y, label_off, batch_size, num_examples,
                   num_batches, pointer, ret, step, direct, pass, passSizes,
                   passShuffled, passRows, passOverlap, served>>
    /\ UNCHANGED dsVars

\* ------------------------------------------------------- CelebADataSet
num_images == 202599

\* load_data(size=None)
NoneSize == -1

\* The byte stored in row k (0-based) of the container.
StoredByte(k) == (k * 101 + 7) % 256

RECURSIVE Pow2(_)
Pow2(k) == IF k = 0 THEN 1 ELSE 2 * Pow2(k - 1)

RECURSIVE Binade(_, _)
\* the least k with b * 2^k >= 255, for 1 <= b <= 255
Binade(b, k) == IF b * Pow2(k) >= 255 THEN k ELSE Binade(b, k + 1)

\* np.array(faces, dtype=np.float16) / 255. for one byte b: the float16
\* nearest to b / 255, written <<q, k>> for the value q / 2^(10 + k).
Normalize(b) ==
    IF b = 0 THEN <<0, 0>>
    ELSE LET k == Binade(b, 0)
         IN  <<(2 * b * Pow2(10 + k) + 255) \div 510, k>>

\* The array a load_data() result stands for.
Rows(r) == [k \in 1..(r.hi - r.lo) |-> Normalize(StoredByte(r.lo + k - 1))]

\* int(np.ceil(a / b)) for a >= 0, b >= 1
CeilDiv(a, b) == (a + b - 1) \div b

Raised(e) == [lo |-> 0, hi |-> 0, error |-> e]

\* fault: an index past the last chunk is not wrapped
WrapOffset_NoWrap(offset, n_chunks) == offset

\* offset = offset % n_chunks when offset >= n_chunks
WrapOffset(offset, n_chunks) ==
    IF offset >= n_chunks THEN offset % n_chunks ELSE offset

\* load_data(size, offset) on container c
load_data(c, size, offset) ==
    IF ~c.exists THEN Raised("IOError")
    ELSE LET full_size == c.rows
             sz        == IF size = NoneSize THEN full_size ELSE size
         IN  IF sz = 0 THEN Raised("ZeroDivisionError")
             ELSE LET n_chunks == CeilDiv(full_size, sz)
                  IN  IF offset >= n_chunks /\ n_chunks = 0
                        THEN Raised("ZeroDivisionError")
                        ELSE LET off == WrapOffset(offset, n_chunks)
                             IN  IF off = n_chunks - 1
                                   THEN [lo |-> Min(off * sz, full_size),
                                         hi |-> full_size,
                                         error |-> "none"]
                                   ELSE [lo |-> Min(off * sz, full_size),
                                         hi |-> Min((off + 1) * sz, full_size),
                                         error |-> "none"]

\* assert (len(self.files) == self.num_images), made in mode 'w' only
FilesAssert(m, f) == m = "w" => f = num_images

\* CelebADataSet.__init__, which runs celeb_a(mode)
DsConstruct ==
    /\ dsStatus = "new"
    /\ IF ~FilesAssert(mode, files)
         THEN /\ dsStatus' = "AssertionError"
              /\ UNCHANGED <<h5, images>>
         ELSE LET c == IF mode = "w" THEN [exists |-> TRUE, rows |-> files]
                                     ELSE h5
                  r == load_data(c, num_images, 0)
              IN  /\ h5' = c
                  /\ images' = IF r.error = "none" THEN r ELSE NoRows
                  /\ dsStatus' = IF r.error = "none" THEN "ready" ELSE r.error
    /\ UNCHANGED <<mode, files, loadArgs, loadRet>>
    /\ UNCHANGED iterVars

\* A call of load_data(size, offset) on the constructed data set.
LoadData ==
    /\ dsStatus = "ready"
    /\ \E size \in (1..MaxSize) \cup {NoneSize}, offset \in 0..MaxOffset :
          /\ loadArgs' = [size |-> size, offset |-> offset, called |-> TRUE]
          /\ loadRet' = load_data(h5, size, offset)
    /\ UNCHANGED <<mode, files, h5, dsStatus, images>>
    /\ UNCHANGED iterVars

FileCounts == (0..1) \cup ((num_images - MaxDelta)..(num_images + MaxDelta))

Containers ==
    {[exists |-> FALSE, rows |-> 0]} \cup
    {[exists |-> TRUE, rows |-> r] :
        r \in (0..MaxRows) \cup ((num_images - MaxDelta)..(num_images + MaxDelta))}

\* A CelebADataSet about to be constructed: the image directory holds
\* `files` images and the container file is absent or holds some rows.
DsInit ==
    /\ \E m \in {"w", "r"}, f \in FileCounts, c \in Containers : DsNew(m, f, c)
    /\ IterNew(1, 1, TRUE)

NextData ==
    \/ DsConstruct
    \/ LoadData

SpecData == DsInit /\ [][NextData]_vars

Next ==
    \/ Construct
    \/ NextBatchNoShuffle
    \/ NextBatchShuffle
    \/ IterateCall
    \/ IterateYield
    \/ IterateStop

Spec == IterInit /\ [][Next]_vars

\* ------------------------------------------------------------ properties
\* self.pointer after k calls of next_batch() on a fresh iterator
RECURSIVE CursorTrace(_, _, _)
CursorTrace(n, bs, k) ==
    IF k = 0 THEN InitialPointer
    ELSE CursorAfter(CursorTrace(n, bs, k - 1), bs, n)

\* row counts of the first k batches of a fresh iterator over n rows
RowCounts(n, bs, k) ==
    [c \in 1..k |->
        LET p == CursorTrace(n, bs, c - 1)
        IN  Min(CursorAfter(p, bs, n), n) - Min(StartAfter(p, bs, n), n)]

\* the calls among the first k of a fresh iterator that reshuffle
ShuffleCalls(n, bs, k) ==
    {c \in 1..k : Overflow(CursorTrace(n, bs, c - 1), bs, n)}

\* the rows at the positions no batch of the current ordering reaches
TailRows == {x[k] : k \in ((num_examples \div batch_size) * batch_size + 1)..Len(x)}

\* C1: every next_batch() call of an iterator constructed with
\* 1 <= batch_size <= num_examples returns a contiguous slice of exactly
\* batch_size rows of the current feature array, and with labels on exactly
\* batch_size label rows; with 100 examples and batch size 30 the first four
\* calls return 30, 30, 30 and 30 rows.
C1_BatchIsFullSlice ==
    /\ (status = "ready" /\ ret.called) =>
          /\ 0 <= ret.start
          /\ ret.end <= Len(x)
          /\ ret.end - ret.start = batch_size
          /\ Len(ret.bx) = batch_size
          /\ ret.bx = SubSeq(x, ret.start + 1, ret.end)
          /\ ~label_off =>
                /\ Len(ret.by) = batch_size
                /\ ret.by = SubSeq(y, ret.start + 1, ret.end)
    /\ RowCounts(100, 30, 4) = <<30, 30, 30, 30>>

C1_Witness ==
    /\ status = "ready" /\ ret.called /\ ret.shuffled /\ ~label_off
    /\ num_examples = 4 /\ batch_size = 3 /\ direct /\ pass = "later"

\* a step that executes next_batch(), directly or from iterate()
CallStep ==
    /\ status = "ready"
    /\ \/ <<x, y, pointer, ret>>' # <<x, y, pointer, ret>>
       \/ step' = step + 1

\* b and l are a and k rearranged by one and the same permutation
JointlyPermuted(a, k, b, l) ==
    /\ Len(b) = Len(a)
    /\ Range(b) = Range(a)
    /\ Len(l) = Len(k)
    /\ \A i \in 1..Len(b) : \E j \in 1..Len(a) :
          /\ b[i] = a[j]
          /\ Len(k) > 0 => l[i] = k[j]

\* C2: next_batch() reshuffles iff the cursor before the call plus batch_size
\* exceeds num_examples.  Then both arrays are rearranged once by one
\* permutation, rows [0, batch_size) of the rearranged arrays are returned and
\* pointer = batch_size; otherwise the arrays are unchanged and pointer grows
\* by batch_size.  For 100 examples and batch size 30 the 4th call is the
\* first to reshuffle and leaves pointer = 30.
C2_ReshuffleOnOverflow ==
    [][CallStep =>
        LET over == pointer + batch_size > num_examples
        IN  /\ ret'.called
            /\ ret'.shuffled <=> over
            /\ over =>
                  /\ JointlyPermuted(x, y, x', y')
                  /\ ret'.start = 0
                  /\ ret'.bx = SubSeq(x', 1, batch_size)
                  /\ ~label_off => ret'.by = SubSeq(y', 1, batch_size)
                  /\ pointer' = batch_size
            /\ ~over =>
                  /\ x' = x
                  /\ y' = y
                  /\ pointer' = pointer + batch_size
                  /\ ret'.bx = SubSeq(x, pointer + 1, pointer + batch_size)
            /\ ShuffleCalls(100, 30, 4) = {4}
            /\ CursorTrace(100, 30, 4) = 30]_vars

C2_Witness ==
    /\ status = "ready" /\ ret.called /\ ret.shuffled
    /\ pointer = batch_size /\ num_batches >= 2 /\ x # arg.x /\ ~label_off

\* C3: when label row k belongs to feature row k initially, every batch has
\* its j-th label equal to the original label of its j-th feature row, after
\* any number of reshuffles, and so have the stored arrays.
C3_LabelPairing ==
    (status = "ready" /\ ~label_off) =>
        /\ Len(y) = Len(x)
        /\ \A k \in 1..Len(x) : y[k] = LabelOf(x[k])
        /\ ret.called =>
              /\ Len(ret.by) = Len(ret.bx)
              /\ \A j \in 1..Len(ret.bx) : ret.by[j] = LabelOf(ret.bx[j])

C3_Witness ==
    /\ status = "ready" /\ ~label_off /\ ret.called /\ ret.shuffled
    /\ x # arg.x /\ ret.bx # SubSeq(arg.x, 1, batch_size)
    /\ pass = "later" /\ direct

\* C4: every iterate() call consumed to exhaustion yields exactly
\* num_examples // batch_size batches, each of batch_size rows, and ends,
\* whatever cursor earlier calls left.
C4_IterateLength ==
    (status = "ready" /\ gen # "none") =>
        /\ Len(passSizes) = step
        /\ step <= num_examples \div batch_size
        /\ \A i \in 1..Len(passSizes) : passSizes[i] = batch_size
        /\ gen = "exhausted" => step = num_examples \div batch_size
        /\ (gen = "running" /\ step = num_examples \div batch_size)
              => ENABLED IterateStop /\ ~ENABLED IterateYield

C4_Witness ==
    /\ status = "ready" /\ gen = "exhausted" /\ pass = "later" /\ direct
    /\ num_batches >= 2 /\ \E i \in 2..Len(passShuffled) : passShuffled[i]

\* C5: load_data(size=s, offset=i) on a container of total rows, s >= 1 and
\* i >= 0, returns the rows [j*s, min((j+1)*s, total)) of the stored array in
\* order, j = i if i < n_chunks else i mod n_chunks, n_chunks = ceil(total/s).
C5_ChunkIsSlice ==
    (dsStatus = "ready" /\ loadArgs.called /\ loadArgs.size >= 1) =>
        LET total    == h5.rows
            s        == loadArgs.size
            i        == loadArgs.offset
            n_chunks == (total \div s) + (IF total % s = 0 THEN 0 ELSE 1)
            j        == IF i < n_chunks THEN i ELSE i % n_chunks
            lo       == j * s
            hi       == Min((j + 1) * s, total)
        IN  /\ loadRet.error = "none"
            /\ Rows(loadRet) =
                  [k \in 1..(hi - lo) |-> Normalize(StoredByte(lo + k - 1))]
            /\ i < n_chunks => Len(Rows(loadRet)) = Min(s, total - i * s)
            /\ Rows(loadRet) = Rows(load_data(h5, s, i % n_chunks))

C5_Witness ==
    /\ dsStatus = "ready" /\ loadArgs.called
    /\ h5.rows = 5 /\ loadArgs.size = 2 /\ loadArgs.offset = 5
    /\ loadRet.lo = 4 /\ loadRet.hi = 5

\* C6: a successfully constructed CelebADataSet holds an image cache of
\* num_images rows, in mode 'w' and in every other mode (construction fails
\* whenever the row count would differ).
C6_CacheHasCorpusSize ==
    dsStatus = "ready" => images.hi - images.lo = num_images

C8_FirstPassCoversArray ==
    /\ (status = "ready" /\ pass = "first" /\ ~direct
            /\ num_examples % batch_size = 0) =>
          /\ \A i \in 1..Len(passShuffled) : ~passShuffled[i]
          /\ x = arg.x
          /\ step > 0 => ret.bx = SubSeq(arg.x, (step - 1) * batch_size + 1,
                                         step * batch_size)
          /\ passRows = Range(SubSeq(arg.x, 1, step * batch_size))
          /\ ~passOverlap
          /\ gen = "exhausted" =>
                /\ step * batch_size = num_examples
                /\ passRows = Range(arg.x)
    /\ ShuffleCalls(100, 25, NumBatches(100, 25)) = {}
    /\ RowCounts(100, 25, NumBatches(100, 25)) = <<25, 25, 25, 25>>

C8_Witness ==
    /\ status = "ready" /\ pass = "first" /\ ~direct /\ gen = "exhausted"
    /\ num_examples = 4 /\ batch_size = 2 /\ passRows = {1, 2, 3, 4}

\* C9: when batch_size does not divide num_examples, the rows at positions
\* >= (num_examples // batch_size) * batch_size of the current ordering are
\* returned by no call made before the next reshuffle; the overflowing call
\* serves rows [0, batch_size) of the new ordering, so a pass never returns
\* every example.
C9_TailNeverServed ==
    (status = "ready" /\ num_examples % batch_size # 0) =>
        /\ TailRows # {}
        /\ served \cap TailRows = {}
        /\ served # Range(x)
        /\ served = Range(SubSeq(x, 1, pointer))
        /\ (ret.called /\ ret.shuffled) =>
              /\ ret.start = 0
              /\ ret.bx = SubSeq(x, 1, batch_size)

C9_Witness ==
    /\ status = "ready" /\ num_examples = 4 /\ batch_size = 3
    /\ ret.called /\ ret.shuffled /\ TailRows = {1}

\* C10: without direct next_batch() calls, every iterate() call after the
\* first reshuffles exactly once, on its first batch, and the batches of any
\* single iterate() call are pairwise disjoint.
C10_OneShufflePerPass ==
    (status = "ready" /\ ~direct) =>
        /\ ~passOverlap
        /\ pass = "later" =>
              /\ \A i \in 1..Len(passShuffled) : passShuffled[i] <=> (i = 1)
              /\ gen = "exhausted" => Len(passShuffled) >= 1

C10_Witness ==
    /\ status = "ready" /\ ~direct /\ pass = "later" /\ gen = "exhausted"
    /\ num_batches >= 2 /\ passShuffled[1] /\ x # arg.x

\* C10, last sentence: with direct calls between passes the batches of one
\* pass can overlap; this state is reachable.
C10_InterleavedOverlap ==
    status = "ready" /\ direct /\ passOverlap

====
